---------------------------- MODULE Spec2Model ----------------------------
(***************************************************************************)
(* A model of the mpv web controllers of this repository:                  *)
(*   - internet_radio_player.py: class MPVController and its API routes,   *)
(*   - controller.py: the /stop and /launch handlers, which drive a player *)
(*     on the very same socket path (/tmp/mpvsocket),                      *)
(*   - audio_book_player.py: send_command, get_property,                   *)
(*     update_playback_state and the routes that use them.                 *)
(* The external player (mpv) and the operating system are the environment: *)
(* which processes are alive, whether the socket file exists, who listens  *)
(* on it, and what a command is answered with.                             *)
(*                                                                         *)
(* Python's None is the empty sequence <<>> and a present value x is <<x>>.*)
(***************************************************************************)
EXTENDS Integers, Sequences, FiniteSets, TLC

\* ------------------------------------------------------------ bounds ----
\* Process ids the operating system hands out: 1..MaxProcs.
MaxProcs == 2

\* ------------------------------------------------- program constants ----
\* len(RADIO_STATIONS)
NumStations == 5
\* MPVController.__init__: self.volume = 50
InitialVolume == 50
\* set_volume: the accepted range is 0..100
VolumeMin == 0
VolumeMax == 100
\* audio_book_player.py: the speed default 1.0, in tenths
SpeedDefault == 10
\* audio_book_player.py: the volume default
BookVolumeDefault == 100

\* ------------------------------------------------------ input domains ----
None == <<>>
Some(x) == <<x>>

\* station indices a caller may pass: the first and the last valid one, and
\* the ones next to them outside the list
StationInputs == {0 - 1, 0, NumStations - 1, NumStations}
ValidStation(i) == i >= 0 /\ i < NumStations
\* volumes a caller may pass
VolumeInputs == {VolumeMin - 1, VolumeMin, VolumeMax, VolumeMax + 1}
\* what the player may answer to get_property volume, media-title and pause
PlayerVolumes == {30}
PlayerTitles == {"Song"}
Pids == 1 .. MaxProcs

VARIABLES
    mpv_process,      \* MPVController.mpv_process: None (0) or the pid of the Popen handle
    current_station,  \* MPVController.current_station: None or Some(index)
    playing,          \* MPVController.playing
    volume,           \* MPVController.volume
    ctl_process,      \* controller.py's global mpv_process: None (0) or a pid
    alive,            \* environment: the player processes that have not exited
    sockFile,         \* environment: a file exists at /tmp/mpvsocket
    sockOwner,        \* environment: the process that bound that socket (0: none)
    phase,            \* __main__: "constructed", then "serving"; "exited" once app.run is over
    playback_state,   \* audio_book_player.py: the global playback_state dict
    book_up,          \* environment: a player listens on /tmp/mpv-socket
    book_resets,      \* environment: that player resets a connection before it answers
    book_silent,      \* environment: that player accepts a connection and never answers
    updater_pc,       \* state_updater's thread: the call of the refresh it makes next
    last              \* the most recent handler run: what it was given, did and returned

vars == <<mpv_process, current_station, playing, volume, ctl_process,
          alive, sockFile, sockOwner, phase, playback_state, book_up, book_resets,
          book_silent, updater_pc, last>>

\* ------------------------------------------------------------ helpers ----
\* A command written to the socket: {"command": [name, prop, arg]}.
\* arg is the station index for loadfile (standing for that station's url),
\* the value for set_property, and 0 where the command has none.
Cmd(name, prop, arg) == [name |-> name, prop |-> prop, arg |-> arg]

\* What send_command hands back: None, or the parsed reply. err: the reply's
\* "error" member is not "success"; data: the reply's "data" member, if any.
NoResponse == [none |-> TRUE, err |-> FALSE, data |-> None]
Reply(err, data) == [none |-> FALSE, err |-> err, data |-> data]

\* The facade, the controller and the environment as one value, with the
\* effects of the handler that is running: conns (connection attempts), sent
\* (commands written), replies (what each send_command call came back with:
\* "none", "error", "ok"), sigs (signals sent to processes), spawns (the
\* processes Popen created), open (connections a send_command call of the
\* facade or of audio_book_player.py made and had not closed when it
\* returned), paused (the "data" get_status read from the reply to
\* get_property pause, if it read one).
World ==
    [mpv_process |-> mpv_process, current_station |-> current_station,
     playing |-> playing, volume |-> volume, ctl_process |-> ctl_process,
     alive |-> alive, sockFile |-> sockFile, sockOwner |-> sockOwner,
     conns |-> 0, sent |-> <<>>, replies |-> <<>>, sigs |-> <<>>, spawns |-> <<>>,
     open |-> 0, paused |-> None]

\* A player answers on the socket: the file is there and its owner runs.
Listening(s) == s.sockFile /\ s.sockOwner \in s.alive

\* A pid for a new process: one no running process has and no handle holds.
FreePids(s) == Pids \ (s.alive \cup {s.mpv_process, s.ctl_process})

\* The state a process leaves behind when it exits: a clean exit removes the
\* socket it bound, a crash leaves a stale file.
Exited(s, p, unlinked) ==
    [s EXCEPT !.alive = @ \ {p},
              !.sockOwner = IF @ = p THEN 0 ELSE @,
              !.sockFile = IF s.sockOwner = p /\ unlinked THEN FALSE ELSE @]


\* ------------------------------------- internet_radio_player.py: facade ----
\* MPVController.send_command(command). datas: the values the player may put
\* in the "data" member of a successful reply to this command (none: its
\* successful reply carries no "data").
send_command(s, cmd, datas) ==
    IF ~s.sockFile
    THEN \* os.path.exists fails: None, and no connection is attempted
         {[s |-> [s EXCEPT !.replies = Append(@, "none")], resp |-> NoResponse]}
    ELSE LET tried == [s EXCEPT !.conns = @ + 1]
             wrote == [tried EXCEPT !.sent = Append(@, cmd)]
             got(w, kind) == [w EXCEPT !.replies = Append(@, kind)]
         IN  IF ~Listening(s)
             THEN \* connect() raises (nobody accepts): caught, None
                  {[s |-> got(tried, "none"), resp |-> NoResponse]}
             ELSE \* the command is written; recv() yields nothing, or
                  \* bytes json.loads rejects: None
                  {[s |-> got(wrote, "none"), resp |-> NoResponse]}
                  \cup
                  \* a reply whose "error" member reports a failure
                  {[s |-> got(wrote, "error"), resp |-> Reply(TRUE, None)]}
                  \cup
                  \* a successful reply
                  {[s |-> got(wrote, "ok"), resp |-> Reply(FALSE, d)]
                     : d \in IF datas = {} THEN {None} ELSE {Some(x) : x \in datas}}

\* a start_mpv that does not look at the handle it holds
start_mpv_respawn(s) ==
    LET cleaned ==
            IF s.sockFile
            THEN {[s EXCEPT !.sockFile = FALSE, !.sockOwner = 0], s}
            ELSE {s}
    IN  UNION {
          {[s |-> c, ret |-> "False"]}
          \cup
          (IF FreePids(c) = {} THEN {}
           ELSE LET p == CHOOSE q \in FreePids(c) : \A r \in FreePids(c) : q <= r
                    up == [c EXCEPT !.mpv_process = p,
                                    !.alive = @ \cup {p},
                                    !.spawns = Append(@, p)]
                IN  {[s |-> [up EXCEPT !.sockFile = TRUE, !.sockOwner = p],
                      ret |-> "True"],
                     [s |-> up, ret |-> "True"]})
          : c \in cleaned }

\* a start_mpv whose "return True" follows the try statement: it answers
\* True when Popen raised, too
start_mpv_oksilently(s) ==
    IF s.mpv_process # 0 /\ s.mpv_process \in s.alive
    THEN {[s |-> s, ret |-> "None"]}
    ELSE LET cleaned ==
                 IF s.sockFile
                 THEN {[s EXCEPT !.sockFile = FALSE, !.sockOwner = 0], s}
                 ELSE {s}
         IN  UNION {
               {[s |-> c, ret |-> "True"]}
               \cup
               (IF FreePids(c) = {} THEN {}
                ELSE LET p == CHOOSE q \in FreePids(c) :
                                   \A r \in FreePids(c) : q <= r
                         up == [c EXCEPT !.mpv_process = p,
                                         !.alive = @ \cup {p},
                                         !.spawns = Append(@, p)]
                     IN  {[s |-> [up EXCEPT !.sockFile = TRUE, !.sockOwner = p],
                           ret |-> "True"],
                          [s |-> up, ret |-> "True"]})
               : c \in cleaned }

\* MPVController.start_mpv(). Returns None (already running), True or False.
start_mpv(s) ==
    IF s.mpv_process # 0 /\ s.mpv_process \in s.alive
    THEN {[s |-> s, ret |-> "None"]}
    ELSE LET \* os.unlink(socket_path) when the file exists; an OSError is
             \* logged and the file stays
             cleaned ==
                 IF s.sockFile
                 THEN {[s EXCEPT !.sockFile = FALSE, !.sockOwner = 0], s}
                 ELSE {s}
         IN  UNION {
               \* Popen raises: False, the handle is left as it was
               {[s |-> c, ret |-> "False"]}
               \cup
               (IF FreePids(c) = {} THEN {}
                ELSE LET p == CHOOSE q \in FreePids(c) :
                                   \A r \in FreePids(c) : q <= r
                         up == [c EXCEPT !.mpv_process = p,
                                         !.alive = @ \cup {p},
                                         !.spawns = Append(@, p)]
                     IN  \* after sleep(1) the new player has bound its
                         \* socket, or has not
                         {[s |-> [up EXCEPT !.sockFile = TRUE, !.sockOwner = p],
                           ret |-> "True"],
                          [s |-> up, ret |-> "True"]})
               : c \in cleaned }

\* a stop_mpv that resets playing and current_station only where the wait
\* returned, not after TimeoutExpired
stop_mpv_noreset(s) ==
    IF s.mpv_process = 0
    THEN {[s |-> s, ret |-> "None"]}
    ELSE LET p == s.mpv_process
             reset(w) == [w EXCEPT !.mpv_process = 0, !.playing = FALSE,
                                   !.current_station = None]
             term == [s EXCEPT !.sigs = Append(@, [sig |-> "terminate", pid |-> p])]
         IN  IF p \notin s.alive
             THEN {[s |-> reset(term), ret |-> "None"]}
             ELSE {[s |-> reset(Exited(term, p, u)), ret |-> "None"] : u \in BOOLEAN}
                  \cup
                  {[s |-> [term EXCEPT
                             !.sigs = Append(@, [sig |-> "kill", pid |-> p]),
                             !.sockOwner = IF @ = p THEN 0 ELSE @,
                             !.mpv_process = 0],
                    ret |-> "None"]}

\* a stop_mpv that kills at once and terminates after the wait
stop_mpv_killfirst(s) ==
    IF s.mpv_process = 0
    THEN {[s |-> s, ret |-> "None"]}
    ELSE LET p == s.mpv_process
             reset(w) == [w EXCEPT !.mpv_process = 0, !.playing = FALSE,
                                   !.current_station = None]
             kill == [s EXCEPT !.sigs = Append(@, [sig |-> "kill", pid |-> p])]
         IN  IF p \notin s.alive
             THEN {[s |-> reset(kill), ret |-> "None"]}
             ELSE {[s |-> reset(Exited(kill, p, u)), ret |-> "None"] : u \in BOOLEAN}
                  \cup
                  {[s |-> reset([kill EXCEPT
                                   !.sigs = Append(@, [sig |-> "terminate", pid |-> p]),
                                   !.sockOwner = IF @ = p THEN 0 ELSE @]),
                    ret |-> "None"]}

\* MPVController.stop_mpv(). Returns None.
stop_mpv(s) ==
    IF s.mpv_process = 0
    THEN {[s |-> s, ret |-> "None"]}
    ELSE LET p == s.mpv_process
             reset(w) == [w EXCEPT !.mpv_process = 0, !.playing = FALSE,
                                   !.current_station = None]
             term == [s EXCEPT !.sigs = Append(@, [sig |-> "terminate", pid |-> p])]
         IN  IF p \notin s.alive
             THEN \* already exited: wait() returns at once
                  {[s |-> reset(term), ret |-> "None"]}
             ELSE \* exits within the 5 s wait, removing its socket or not
                  {[s |-> reset(Exited(term, p, u)), ret |-> "None"] : u \in BOOLEAN}
                  \cup
                  \* TimeoutExpired: kill(), which is not waited for: the
                  \* process serves its socket no more, and is gone once
                  \* the signal's delivery ends
                  {[s |-> reset([term EXCEPT
                                   !.sigs = Append(@, [sig |-> "kill", pid |-> p]),
                                   !.sockOwner = IF @ = p THEN 0 ELSE @]),
                    ret |-> "None"]}

\* MPVController.play_station, after the index was validated: start the
\* player if the socket file is absent, send loadfile, record the station.
play_valid(s, station_idx) ==
    LET started ==
            IF ~s.sockFile
            THEN start_mpv(s)
            ELSE {[s |-> s, ret |-> "True"]}
    IN  UNION {
          IF st.ret # "True"
          THEN \* "if not success": None (already running) and False
               {[s |-> st.s, ret |-> "False"]}
          ELSE { IF r.resp.none
                 THEN [s |-> r.s, ret |-> "False"]
                 ELSE [s |-> [r.s EXCEPT !.current_station = Some(station_idx),
                                         !.playing = TRUE],
                       ret |-> "True"]
                 : r \in send_command(st.s, Cmd("loadfile", "", station_idx), {}) }
          : st \in started }

\* a play_station whose upper check is off by one
play_station_offbyone(s, station_idx) ==
    IF station_idx < 0 \/ station_idx > NumStations
    THEN {[s |-> s, ret |-> "False"]}
    ELSE play_valid(s, station_idx)

\* a play_station that checks the upper end of the list only
play_station_nolower(s, station_idx) ==
    IF station_idx >= NumStations
    THEN {[s |-> s, ret |-> "False"]}
    ELSE play_valid(s, station_idx)

\* MPVController.play_station(station_idx). Returns True or False.
play_station(s, station_idx) ==
    IF station_idx < 0 \/ station_idx >= NumStations
    THEN {[s |-> s, ret |-> "False"]}
    ELSE play_valid(s, station_idx)

\* a toggle_pause that cycles pause whenever a station is remembered, playing
\* or not, instead of re-issuing play_station
toggle_pause_cycles(s) ==
    IF ~s.playing /\ s.current_station = None
    THEN {[s |-> s, ret |-> "False"]}
    ELSE { IF r.resp.none
           THEN [s |-> r.s, ret |-> "False"]
           ELSE [s |-> [r.s EXCEPT !.playing = ~s.playing], ret |-> "True"]
           : r \in send_command(s, Cmd("cycle", "pause", 0), {}) }

\* a toggle_pause that does not look for a remembered station: not playing,
\* it always re-issues play_station, on the first station when none is known
toggle_pause_blind(s) ==
    IF ~s.playing
    THEN play_station(s, IF s.current_station # None THEN s.current_station[1] ELSE 0)
    ELSE { IF r.resp.none
           THEN [s |-> r.s, ret |-> "False"]
           ELSE [s |-> [r.s EXCEPT !.playing = ~s.playing], ret |-> "True"]
           : r \in send_command(s, Cmd("cycle", "pause", 0), {}) }

\* a toggle_pause that flips playing whatever send_command returned
toggle_pause_flips(s) ==
    IF ~s.playing
    THEN IF s.current_station # None
         THEN play_station(s, s.current_station[1])
         ELSE {[s |-> s, ret |-> "False"]}
    ELSE { [s |-> [r.s EXCEPT !.playing = ~s.playing],
            ret |-> IF r.resp.none THEN "False" ELSE "True"]
           : r \in send_command(s, Cmd("cycle", "pause", 0), {}) }

\* MPVController.toggle_pause(). Returns True or False.
toggle_pause(s) ==
    IF ~s.playing
    THEN IF s.current_station # None
         THEN play_station(s, s.current_station[1])
         ELSE {[s |-> s, ret |-> "False"]}
    ELSE { IF r.resp.none
           THEN [s |-> r.s, ret |-> "False"]
           ELSE [s |-> [r.s EXCEPT !.playing = ~s.playing], ret |-> "True"]
           : r \in send_command(s, Cmd("cycle", "pause", 0), {}) }

\* a stop that also forgets the station, as stop_mpv does
stop_forgets(s) ==
    { IF r.resp.none
      THEN [s |-> r.s, ret |-> "False"]
      ELSE [s |-> [r.s EXCEPT !.playing = FALSE, !.current_station = None],
            ret |-> "True"]
      : r \in send_command(s, Cmd("stop", "", 0), {}) }

\* MPVController.stop(). Returns True or False.
stop(s) ==
    { IF r.resp.none
      THEN [s |-> r.s, ret |-> "False"]
      ELSE [s |-> [r.s EXCEPT !.playing = FALSE], ret |-> "True"]
      : r \in send_command(s, Cmd("stop", "", 0), {}) }

\* a set_volume that caches the volume before it knows the command arrived
set_volume_eager(s, v) ==
    IF v < VolumeMin \/ v > VolumeMax
    THEN {[s |-> s, ret |-> "False"]}
    ELSE { [s |-> [r.s EXCEPT !.volume = v],
            ret |-> IF r.resp.none THEN "False" ELSE "True"]
           : r \in send_command(s, Cmd("set_property", "volume", v), {}) }

\* MPVController.set_volume(volume). Returns True or False.
set_volume(s, v) ==
    IF v < VolumeMin \/ v > VolumeMax
    THEN {[s |-> s, ret |-> "False"]}
    ELSE { IF r.resp.none
           THEN [s |-> r.s, ret |-> "False"]
           ELSE [s |-> [r.s EXCEPT !.volume = v], ret |-> "True"]
           : r \in send_command(s, Cmd("set_property", "volume", v), {}) }


\* RADIO_STATIONS[i]["name"], i counted from 0
StationName(i) ==
    <<"Deep Space One", "Lush", "Metal", "Drone Zone", "Sonic Universe">>[i + 1]

\* a status dict that names the station only while playing
StatusDict_whilePlaying(s, title) ==
    [playing |-> s.playing,
     station_index |-> IF s.playing THEN s.current_station ELSE None,
     station_name |-> IF s.current_station # None
                      THEN Some(StationName(s.current_station[1]))
                      ELSE None,
     media_title |-> title,
     volume |-> s.volume]

\* The dict get_status builds (the same in its try and its except branch,
\* but for the title).
StatusDict(s, title) ==
    [playing |-> s.playing,
     station_index |-> s.current_station,
     station_name |-> IF s.current_station # None
                      THEN Some(StationName(s.current_station[1]))
                      ELSE None,
     media_title |-> title,
     volume |-> s.volume]

\* a get_status that applies its "paused = True" default to playing when the
\* pause reply has no "data"
get_status_defaultpaused(s) ==
    UNION { UNION { {
        LET media_title == IF r1.resp.data # None THEN r1.resp.data[1] ELSE "Unknown"
            s2 == IF r2.resp.data # None
                  THEN [r3.s EXCEPT !.volume = r2.resp.data[1]]
                  ELSE r3.s
            s3 == IF r3.resp.data # None
                  THEN [s2 EXCEPT !.playing = ~r3.resp.data[1]]
                  ELSE [s2 EXCEPT !.playing = FALSE]
        IN  [s |-> s3, ret |-> "dict", status |-> Some(StatusDict(s3, Some(media_title)))]
        : r3 \in send_command(r2.s, Cmd("get_property", "pause", 0), BOOLEAN) }
        : r2 \in send_command(r1.s, Cmd("get_property", "volume", 0), PlayerVolumes) }
        : r1 \in send_command(s, Cmd("get_property", "media-title", 0), PlayerTitles) }

\* a get_status that lets the player's pause flag end its belief that it
\* plays, and never start it: playing = playing and not paused
get_status_onlypauses(s) ==
    UNION { UNION { {
        LET media_title == IF r1.resp.data # None THEN r1.resp.data[1] ELSE "Unknown"
            s2 == IF r2.resp.data # None
                  THEN [r3.s EXCEPT !.volume = r2.resp.data[1]]
                  ELSE r3.s
            s3 == IF r3.resp.data # None
                  THEN [s2 EXCEPT !.playing = @ /\ ~r3.resp.data[1],
                                  !.paused = r3.resp.data]
                  ELSE s2
        IN  [s |-> s3, ret |-> "dict", status |-> Some(StatusDict(s3, Some(media_title)))]
        : r3 \in send_command(r2.s, Cmd("get_property", "pause", 0), BOOLEAN) }
        : r2 \in send_command(r1.s, Cmd("get_property", "volume", 0), PlayerVolumes) }
        : r1 \in send_command(s, Cmd("get_property", "media-title", 0), PlayerTitles) }

\* MPVController.get_status(). Returns the status dict.
\* "response and 'data' in response": a reply that is an object with "data".
get_status(s) ==
    UNION { UNION { {
        LET media_title == IF r1.resp.data # None THEN r1.resp.data[1] ELSE "Unknown"
            s2 == IF r2.resp.data # None
                  THEN [r3.s EXCEPT !.volume = r2.resp.data[1]]
                  ELSE r3.s
            s3 == IF r3.resp.data # None
                  THEN [s2 EXCEPT !.playing = ~r3.resp.data[1],
                                  !.paused = r3.resp.data]
                  ELSE s2
        IN  [s |-> s3, ret |-> "dict", status |-> Some(StatusDict(s3, Some(media_title)))]
        : r3 \in send_command(r2.s, Cmd("get_property", "pause", 0), BOOLEAN) }
        : r2 \in send_command(r1.s, Cmd("get_property", "volume", 0), PlayerVolumes) }
        : r1 \in send_command(s, Cmd("get_property", "media-title", 0), PlayerTitles) }


\* ---------------------------------------------- controller.py: handlers ----
\* send_mpv_command(command): connects without looking for the file, writes
\* the command, reads no reply. Returns True or False.
send_mpv_command(s, cmd) ==
    LET tried == [s EXCEPT !.conns = @ + 1]
    IN  {[s |-> tried, ret |-> "False"]}
        \cup
        (IF Listening(s)
         THEN {[s |-> [tried EXCEPT !.sent = Append(@, cmd)], ret |-> "True"]}
         ELSE {})

\* stop(): the /stop handler. ret is the "success" member of its JSON body.
ctl_stop(s) ==
    IF s.ctl_process = 0
    THEN {[s |-> s, ret |-> "False"]}
    ELSE LET p == s.ctl_process
             clear(w) == [w EXCEPT !.ctl_process = 0]
         IN  UNION {
               IF p \notin q.s.alive
               THEN {[s |-> clear(q.s), ret |-> q.ret]}
               ELSE \* wait(timeout=5) returns: the player has exited
                    {[s |-> clear(Exited(q.s, p, u)), ret |-> q.ret] : u \in BOOLEAN}
                    \cup
                    \* wait raises: terminate(), which is not waited for
                    {[s |-> clear([q.s EXCEPT
                                     !.sigs = Append(@, [sig |-> "terminate", pid |-> p])]),
                      ret |-> q.ret]}
               : q \in send_mpv_command(s, Cmd("quit", "", 0)) }

\* launch(): the POST branch of the /launch handler. stream: the form field
\* is present and not empty. ret "raise": Popen's exception leaves the handler.
ctl_launch(s, stream) ==
    IF ~stream
    THEN {[s |-> s, ret |-> "False"]}
    ELSE LET p == s.ctl_process
             term == [s EXCEPT !.sigs = Append(@, [sig |-> "terminate", pid |-> p])]
             stopped ==
                 IF p = 0 THEN {s}
                 ELSE IF p \notin s.alive THEN {term}
                 ELSE {Exited(term, p, u) : u \in BOOLEAN} \cup {term}
         IN  UNION {
               {[s |-> c, ret |-> "raise"]}
               \cup
               (IF FreePids(c) = {} THEN {}
                ELSE LET n == CHOOSE q \in FreePids(c) :
                                   \A r \in FreePids(c) : q <= r
                     IN  \* the new player binds the socket path
                         {[s |-> [c EXCEPT !.ctl_process = n,
                                           !.alive = @ \cup {n},
                                           !.sockFile = TRUE,
                                           !.sockOwner = n,
                                           !.spawns = Append(@, n)],
                           ret |-> "True"]})
               : c \in stopped }

\* ------------------------------------------------------------ actions ----
\* History kept with the record of a handler run.
\* repeat: this is a stop of the player process (stop_mpv, controller.py's
\* stop) and the handler that ran before it was the same operation.
RepeatOf(op) == op \in {"stop_mpv", "ctl_stop"} /\ last.op = op

\* run: how far the calls have followed "play_station(idx) returned True, then
\* toggle_pause, then toggle_pause after a toggle_pause that returned True",
\* each the next handler after the one before (n = 0: they have not).
RunOf(op, arg, ret) ==
    IF op = "play_station" /\ ret = "True"
    THEN [n |-> 1, idx |-> arg]
    ELSE IF op = "toggle_pause" /\ last.run.n = 1
    THEN [n |-> 2, idx |-> last.run.idx]
    ELSE IF op = "toggle_pause" /\ last.run.n = 2 /\ last.ret = "True"
    THEN [n |-> 3, idx |-> last.run.idx]
    ELSE [n |-> 0, idx |-> 0]

\* after: for a status read that directly follows a play_station call with a
\* valid index, that index and whether the call returned True.
AfterOf(op) ==
    IF op = "get_status" /\ last.op = "play_station" /\ ValidStation(last.arg)
    THEN [idx |-> Some(last.arg), ok |-> last.ret = "True"]
    ELSE [idx |-> None, ok |-> FALSE]

\* The record of a handler run: what it was called with (op, arg), what the
\* run did (conns, sent, replies, sigs, spawns), what the method returned
\* (ret), the status dict it returned (status) and the HTTP status code of the
\* route's response (http; 0 when the method was not called through a route).
Done(op, arg, r, status, http) ==
    [op |-> op, arg |-> arg, ret |-> r.ret, status |-> status, http |-> http,
     conns |-> r.s.conns, sent |-> r.s.sent, replies |-> r.s.replies,
     sigs |-> r.s.sigs, spawns |-> r.s.spawns, open |-> r.s.open,
     paused |-> r.s.paused,
     repeat |-> RepeatOf(op), run |-> RunOf(op, arg, r.ret), after |-> AfterOf(op)]

\* The handler returns: its world becomes the state.
Commit(s, rec) ==
    /\ mpv_process' = s.mpv_process
    /\ current_station' = s.current_station
    /\ playing' = s.playing
    /\ volume' = s.volume
    /\ ctl_process' = s.ctl_process
    /\ alive' = s.alive
    /\ sockFile' = s.sockFile
    /\ sockOwner' = s.sockOwner
    /\ last' = rec
    /\ UNCHANGED <<playback_state, book_up, book_resets, book_silent, updater_pc>>

\* "if success: 200 else: 500" of the routes
HttpOf(ret) == IF ret = "True" THEN 200 ELSE 500

Init ==
    /\ mpv_process = 0
    /\ current_station = None
    /\ playing = FALSE
    /\ volume = InitialVolume
    /\ ctl_process = 0
    /\ alive = {}
    /\ sockFile = FALSE
    /\ sockOwner = 0
    /\ phase = "constructed"
    /\ playback_state = [filename |-> "Unknown", duration |-> 0, position |-> 0,
                         paused |-> FALSE, speed |-> SpeedDefault, chapter |-> 0,
                         chapter_count |-> 0, volume |-> BookVolumeDefault,
                         last_updated |-> 0]
    /\ book_up = FALSE
    /\ book_resets = FALSE
    /\ book_silent = FALSE
    /\ updater_pc = 0
    /\ last = [op |-> "init", arg |-> 0, ret |-> "None", status |-> None, http |-> 0,
               conns |-> 0, sent |-> <<>>, replies |-> <<>>, sigs |-> <<>>,
               spawns |-> <<>>, open |-> 0, paused |-> None, repeat |-> FALSE, run |-> [n |-> 0, idx |-> 0],
               after |-> [idx |-> None, ok |-> FALSE]]

\* __main__: mpv.start_mpv() before app.run
MainStart ==
    /\ phase = "constructed"
    /\ phase' = "serving"
    /\ \E r \in start_mpv(World) :
          Commit(r.s, Done("start_mpv", 0, r, None, 0))

\* POST /api/play/<int:station_idx>. The int converter matches no minus sign:
\* a negative index reaches play_station only by a direct call (http 0).
PlayStation(i) ==
    /\ phase = "serving"
    /\ UNCHANGED phase
    /\ \E r \in play_station(World, i) :
          Commit(r.s, Done("play_station", i, r, None,
                           IF i >= 0 THEN HttpOf(r.ret) ELSE 0))

\* POST /api/pause
TogglePause ==
    /\ phase = "serving"
    /\ UNCHANGED phase
    /\ \E r \in toggle_pause(World) :
          Commit(r.s, Done("toggle_pause", 0, r, None, HttpOf(r.ret)))

\* POST /api/stop
Stop ==
    /\ phase = "serving"
    /\ UNCHANGED phase
    /\ \E r \in stop(World) :
          Commit(r.s, Done("stop", 0, r, None, HttpOf(r.ret)))

\* POST /api/volume/<int:volume>; a negative volume only by a direct call
SetVolume(v) ==
    /\ phase = "serving"
    /\ UNCHANGED phase
    /\ \E r \in set_volume(World, v) :
          Commit(r.s, Done("set_volume", v, r, None,
                           IF v >= 0 THEN HttpOf(r.ret) ELSE 0))

\* GET /api/status
api_get_status(s) ==
    IF ~s.sockFile
    THEN {[s |-> s, ret |-> "dict",
           status |-> Some([playing |-> FALSE, station_index |-> None,
                            station_name |-> None, media_title |-> None,
                            volume |-> s.volume])]}
    ELSE get_status(s)

GetStatus ==
    /\ phase = "serving"
    /\ UNCHANGED phase
    /\ \E r \in api_get_status(World) :
          Commit(r.s, Done("get_status", 0, r, r.status, 200))

\* a restart that starts before it stops
restart_startfirst(s) ==
    UNION { { [s |-> q.s, ret |-> r.ret] : q \in stop_mpv(r.s) } : r \in start_mpv(s) }

\* POST /api/restart_mpv
restart_mpv(s) ==
    UNION { start_mpv(r.s) : r \in stop_mpv(s) }

RestartMpv ==
    /\ phase = "serving"
    /\ UNCHANGED phase
    /\ \E r \in restart_mpv(World) :
          Commit(r.s, Done("restart_mpv", 0, r, None, HttpOf(r.ret)))

\* POST /api/shutdown_mpv
ShutdownMpv ==
    /\ phase = "serving"
    /\ UNCHANGED phase
    /\ \E r \in stop_mpv(World) :
          Commit(r.s, Done("stop_mpv", 0, r, None, 200))

\* controller.py POST /stop
CtlStop ==
    /\ phase # "exited"
    /\ UNCHANGED phase
    /\ \E r \in ctl_stop(World) :
          Commit(r.s, Done("ctl_stop", 0, r, None, 200))

\* controller.py POST /launch
CtlLaunch(stream) ==
    /\ phase # "exited"
    /\ UNCHANGED phase
    /\ \E r \in ctl_launch(World, stream) :
          Commit(r.s, Done("ctl_launch", IF stream THEN 1 ELSE 0, r, None,
                           IF r.ret = "raise" THEN 500 ELSE 200))

\* controller.py's app.run(host='0.0.0.0', port=5000) returns or is
\* interrupted, and the interpreter ends: nothing follows app.run
CtlExit ==
    /\ phase # "exited"
    /\ phase' = "exited"
    /\ Commit(World, Done("ctl_exit", 0, [s |-> World, ret |-> "None"], None, 0))

\* environment: a player process exits on its own (quit, crash, end of a
\* signal's delivery), removing the socket it bound or leaving it stale
EnvExit(p, unlinked) ==
    /\ p \in alive
    /\ LET s == Exited(World, p, unlinked)
       IN  /\ alive' = s.alive
           /\ sockFile' = s.sockFile
           /\ sockOwner' = s.sockOwner
    /\ UNCHANGED <<mpv_process, current_station, playing, volume, ctl_process,
                   phase, playback_state, book_up, book_resets, book_silent,
                   updater_pc, last>>

\* environment: a player the facade did not spawn is started on the facade's
\* socket path, as controller.py's launch does:
\* mpv --input-ipc-server=/tmp/mpvsocket <stream>
EnvLaunch ==
    /\ FreePids(World) # {}
    /\ LET n == CHOOSE q \in FreePids(World) : \A r \in FreePids(World) : q <= r
       IN  /\ alive' = alive \cup {n}
           /\ sockFile' = TRUE
           /\ sockOwner' = n
    /\ UNCHANGED <<mpv_process, current_station, playing, volume, ctl_process,
                   phase, playback_state, book_up, book_resets, book_silent,
                   updater_pc, last>>

\* internet_radio_player.py, with the player and the system around it
Next ==
    \/ MainStart
    \/ \E i \in StationInputs : PlayStation(i)
    \/ TogglePause
    \/ Stop
    \/ \E v \in VolumeInputs : SetVolume(v)
    \/ GetStatus
    \/ RestartMpv
    \/ ShutdownMpv
    \/ \E p \in Pids, u \in BOOLEAN : EnvExit(p, u)
    \/ EnvLaunch

Spec == Init /\ [][Next]_vars

\* mpv.start_mpv() called on the facade while the application serves
StartMpv ==
    /\ phase = "serving"
    /\ UNCHANGED phase
    /\ \E r \in start_mpv(World) :
          Commit(r.s, Done("start_mpv", 0, r, None, 0))

\* the application, and the facade's start_mpv as a method of its own
FacadeNext ==
    \/ Next
    \/ StartMpv

FacadeSpec == Init /\ [][FacadeNext]_vars

\* controller.py, with the player and the system around it
CtlNext ==
    \/ CtlStop
    \/ \E b \in BOOLEAN : CtlLaunch(b)
    \/ CtlExit
    \/ \E p \in Pids, u \in BOOLEAN : EnvExit(p, u)

CtlSpec == Init /\ [][CtlNext]_vars


\* ------------------------------------------------ audio_book_player.py ----
\* The module's state and its player, with the effects of the handler that
\* is running.
BookWorld ==
    [playback_state |-> playback_state, book_up |-> book_up,
     book_resets |-> book_resets,
     conns |-> 0, sent |-> <<>>, replies |-> <<>>, sigs |-> <<>>, spawns |-> <<>>,
     open |-> 0, paused |-> None]

\* send_command(command, args). The result is the reply's "data" member, or
\* None where the parsed reply has none: an error reply, and the
\* {"error": str(e)} that stands for any exception. datas: the values the
\* player may put there for this command. The socket is closed by the
\* sock.close() after recv(), and by nothing else.
book_send_command(s, cmd, datas) ==
    LET tried == [s EXCEPT !.conns = @ + 1]
        wrote == [tried EXCEPT !.sent = Append(@, cmd)]
    IN  IF ~s.book_up
        THEN \* connect() raises
             {[s |-> tried, data |-> None]}
        ELSE IF s.book_resets
        THEN \* connected and written; recv() raises, so sock.close() is
             \* not reached: the connection stays open until the socket
             \* object is collected, at the return or later
             {[s |-> wrote, data |-> None],
              [s |-> [wrote EXCEPT !.open = @ + 1], data |-> None]}
        ELSE \* sock.close(), then json.loads raises, or the reply has no
             \* "data"
             {[s |-> wrote, data |-> None]}
             \cup
             {[s |-> wrote, data |-> Some(d)] : d \in datas}

\* get_property(property_name): result["data"] if "data" in result, else None
get_property(s, name, datas) ==
    { [s |-> r.s, val |-> r.data]
      : r \in book_send_command(s, Cmd("get_property", name, 0), datas) }

\* Python's "x or default" on what get_property returned: None, 0, "" and
\* False are falsy.
OrNum(val, default) == IF val = None \/ val[1] = 0 THEN default ELSE val[1]
OrStr(val, default) == IF val = None \/ val[1] = "" THEN default ELSE val[1]
OrBool(val, default) == IF val = None \/ ~val[1] THEN default ELSE val[1]

\* what the player may report
BookTitles == {"Book"}
BookFiles == {"book.mp3"}
BookNumbers == {7}
BookSpeeds == {15}
BookVolumes == {0, 40}

\* One numeric field of update_playback_state:
\* playback_state[field] = get_property(prop) or default
fetch_num(worlds, field, prop, datas, default) ==
    UNION { { [r.s EXCEPT !.playback_state[field] = OrNum(r.val, default)]
              : r \in get_property(w, prop, datas) }
            : w \in worlds }

\* a fetch that keeps the last known value where the player gives none
fetch_num_lastknown(worlds, field, prop, datas, default) ==
    UNION { { [r.s EXCEPT !.playback_state[field] = OrNum(r.val, w.playback_state[field])]
              : r \in get_property(w, prop, datas) }
            : w \in worlds }

\* playback_state["filename"] =
\*     get_property("media-title") or get_property("filename") or "Unknown"
fetch_title(worlds) ==
    UNION { UNION {
        IF OrStr(r1.val, "") # ""
        THEN {[r1.s EXCEPT !.playback_state.filename = r1.val[1]]}
        ELSE { [r2.s EXCEPT !.playback_state.filename = OrStr(r2.val, "Unknown")]
               : r2 \in get_property(r1.s, "filename", BookFiles) }
        : r1 \in get_property(w, "media-title", BookTitles) }
        : w \in worlds }

\* playback_state["paused"] = get_property("pause") or False
fetch_paused(worlds) ==
    UNION { { [r.s EXCEPT !.playback_state.paused = OrBool(r.val, FALSE)]
              : r \in get_property(w, "pause", BOOLEAN) }
            : w \in worlds }

\* an update that keeps every numeric field's last known value
update_playback_state_lastknown(s) ==
    LET a == fetch_title({s})
        b == fetch_num_lastknown(a, "duration", "duration", BookNumbers, 0)
        c == fetch_num_lastknown(b, "position", "time-pos", BookNumbers, 0)
        d == fetch_paused(c)
        e == fetch_num_lastknown(d, "speed", "speed", BookSpeeds, SpeedDefault)
        f == fetch_num_lastknown(e, "chapter", "chapter", BookNumbers, 0)
        g == fetch_num_lastknown(f, "chapter_count", "chapter-list/count", BookNumbers, 0)
        h == fetch_num_lastknown(g, "volume", "volume", BookVolumes, BookVolumeDefault)
    IN  { [s |-> [w EXCEPT !.playback_state.last_updated = 1], ret |-> "None"]
          : w \in h }

\* update_playback_state(). last_updated: 0 before the first update, 1 for
\* the time.time() of an update.
update_playback_state(s) ==
    LET a == fetch_title({s})
        b == fetch_num(a, "duration", "duration", BookNumbers, 0)
        c == fetch_num(b, "position", "time-pos", BookNumbers, 0)
        d == fetch_paused(c)
        e == fetch_num(d, "speed", "speed", BookSpeeds, SpeedDefault)
        f == fetch_num(e, "chapter", "chapter", BookNumbers, 0)
        g == fetch_num(f, "chapter_count", "chapter-list/count", BookNumbers, 0)
        h == fetch_num(g, "volume", "volume", BookVolumes, BookVolumeDefault)
    IN  { [s |-> [w EXCEPT !.playback_state.last_updated = 1], ret |-> "None"]
          : w \in h }

\* set_volume(): the /api/set_volume handler. volume: the body's "volume"
\* member, a number. ret is the "status" member of its JSON body.
book_set_volume(s, v) ==
    { [s |-> r.s, ret |-> "success"]
      : r \in book_send_command(s, Cmd("set_property", "volume", v), {}) }

BookCommit(s, rec) ==
    /\ playback_state' = s.playback_state
    /\ book_up' = s.book_up
    /\ book_resets' = s.book_resets
    /\ last' = rec
    /\ UNCHANGED <<mpv_process, current_station, playing, volume, ctl_process,
                   alive, sockFile, sockOwner, phase, book_silent, updater_pc>>

\* toggle_pause(): the /api/toggle_pause handler
book_toggle_pause(s) ==
    { [s |-> r.s, ret |-> "success"]
      : r \in book_send_command(s, Cmd("cycle", "pause", 0), {}) }

\* stop(): the /api/stop handler
book_stop(s) ==
    { [s |-> r.s, ret |-> "success"]
      : r \in book_send_command(s, Cmd("stop", "", 0), {}) }

\* The bodies a POST may carry: a JSON object whose field is a number, one
\* without the field, one whose field is a text that is no number, the JSON
\* null, bytes that are not JSON, and no JSON body at all.
Bodies == {"number", "missing", "text", "null", "malformed", "absent"}
SeekInputs == {30}

\* seek(): the /api/seek handler. data = request.get_json();
\* seconds = data.get('seconds', 0); send_command("seek", [float(seconds),
\* "relative"]). ret "raise": an exception leaves the handler, and the
\* response is the framework's error page with that status code.
book_seek(s, body, seconds) ==
    CASE body = "number" ->
           { [s |-> r.s, ret |-> "success", code |-> 200]
             : r \in book_send_command(s, Cmd("seek", "relative", seconds), {}) }
      [] body = "missing" ->
           { [s |-> r.s, ret |-> "success", code |-> 200]
             : r \in book_send_command(s, Cmd("seek", "relative", 0), {}) }
      [] body = "text" ->
           \* float() raises ValueError
           {[s |-> s, ret |-> "raise", code |-> 500]}
      [] body = "null" ->
           \* data is None: data.get raises AttributeError
           {[s |-> s, ret |-> "raise", code |-> 500]}
      [] body = "malformed" ->
           \* get_json raises BadRequest
           {[s |-> s, ret |-> "raise", code |-> 400]}
      [] body = "absent" ->
           \* get_json raises UnsupportedMediaType, or returns None where
           \* the framework is older
           {[s |-> s, ret |-> "raise", code |-> 415],
            [s |-> s, ret |-> "raise", code |-> 500]}

\* state_updater(): one turn of the background thread's loop
BookTick ==
    \E r \in update_playback_state(BookWorld) :
        BookCommit(r.s, Done("book_tick", 0, r, None, 0))

\* GET /api/state: update_playback_state(), then jsonify(playback_state)
BookGetState ==
    \E r \in update_playback_state(BookWorld) :
        BookCommit(r.s, Done("book_get_state", 0, r, Some(r.s.playback_state), 200))

\* POST /api/set_volume
BookSetVolume(v) ==
    \E r \in book_set_volume(BookWorld, v) :
        BookCommit(r.s, Done("book_set_volume", v, r, None, 200))

\* POST /api/toggle_pause
BookTogglePause ==
    \E r \in book_toggle_pause(BookWorld) :
        BookCommit(r.s, Done("book_toggle_pause", 0, r, None, 200))

\* POST /api/stop
BookStop ==
    \E r \in book_stop(BookWorld) :
        BookCommit(r.s, Done("book_stop", 0, r, None, 200))

\* POST /api/seek
BookSeek(body) ==
    \E seconds \in SeekInputs : \E r \in book_seek(BookWorld, body, seconds) :
        BookCommit(r.s, Done("book_seek", IF body = "number" THEN seconds ELSE 0,
                             r, None, r.code))

\* environment: the audio book's player comes up, or goes away
BookEnv ==
    /\ book_up' = ~book_up
    /\ UNCHANGED <<mpv_process, current_station, playing, volume, ctl_process,
                   alive, sockFile, sockOwner, phase, playback_state,
                   book_resets, book_silent, updater_pc, last>>

\* environment: the player starts, or ceases, to reset the connections it
\* accepts
BookEnvResets ==
    /\ book_resets' = ~book_resets
    /\ UNCHANGED <<mpv_process, current_station, playing, volume, ctl_process,
                   alive, sockFile, sockOwner, phase, playback_state,
                   book_up, book_silent, updater_pc, last>>

\* audio_book_player.py, with its player
BookNext ==
    \/ BookTick
    \/ BookGetState
    \/ \E v \in VolumeInputs : BookSetVolume(v)
    \/ BookTogglePause
    \/ BookStop
    \/ \E body \in Bodies : BookSeek(body)
    \/ BookEnv
    \/ BookEnvResets

BookSpec == Init /\ [][BookNext]_vars

\* The send_command calls of one update_playback_state(), in order: the
\* title, duration, time-pos, pause, speed, chapter, chapter-list/count and
\* volume fetches.
RefreshCalls == 0 .. 7

\* Call k of update_playback_state() and the assignment it feeds; the last
\* one is followed by the assignment of last_updated.
refresh_call(s, k) ==
    CASE k = 0 -> fetch_title({s})
      [] k = 1 -> fetch_num({s}, "duration", "duration", BookNumbers, 0)
      [] k = 2 -> fetch_num({s}, "position", "time-pos", BookNumbers, 0)
      [] k = 3 -> fetch_paused({s})
      [] k = 4 -> fetch_num({s}, "speed", "speed", BookSpeeds, SpeedDefault)
      [] k = 5 -> fetch_num({s}, "chapter", "chapter", BookNumbers, 0)
      [] k = 6 -> fetch_num({s}, "chapter_count", "chapter-list/count", BookNumbers, 0)
      [] k = 7 -> { [w EXCEPT !.playback_state.last_updated = 1]
                    : w \in fetch_num({s}, "volume", "volume", BookVolumes,
                                      BookVolumeDefault) }

\* state_updater(): the thread's next send_command call returns and the
\* loop goes on to the one after it (after the last one: sleep(1), then the
\* first one of the next round). send_command sets no timeout on its
\* socket: connect() fails at once where no player listens, and recv()
\* returns when the player has answered or closed the connection; while a
\* player holds the connection open without answering, the call does not
\* return.
StateUpdater ==
    /\ ~(book_up /\ book_silent)
    /\ \E w \in refresh_call(BookWorld, updater_pc) :
          playback_state' = w.playback_state
    /\ updater_pc' = (updater_pc + 1) % Cardinality(RefreshCalls)
    /\ UNCHANGED <<mpv_process, current_station, playing, volume, ctl_process,
                   alive, sockFile, sockOwner, phase, book_up, book_resets,
                   book_silent, last>>

\* environment: the player starts, or ceases, to leave the connections it
\* accepts unanswered
BookEnvSilent ==
    /\ book_silent' = ~book_silent
    /\ UNCHANGED <<mpv_process, current_station, playing, volume, ctl_process,
                   alive, sockFile, sockOwner, phase, playback_state,
                   book_up, book_resets, updater_pc, last>>

\* audio_book_player.py's updater thread, with its player
UpdaterNext ==
    \/ StateUpdater
    \/ BookEnv
    \/ BookEnvSilent

\* The thread runs whenever the call it is in can return, again and again.
UpdaterSpec == Init /\ [][UpdaterNext]_vars /\ SF_vars(StateUpdater)

\* ------------------------------------------------------------- claims ----
\* Facade fields, which only the facade's handlers change.
facade == <<mpv_process, current_station, playing, volume>>

\* The step is a run of handler op. (A handler run that leaves every variable
\* as it was, the record of the run included, is a stuttering step.)
Ran(op) == last' # last /\ last'.op = op

\* Every send_command call of the run came back with a reply.
Reached(l) == l.replies # <<>> /\ \A k \in DOMAIN l.replies : l.replies[k] # "none"

CyclePause == Cmd("cycle", "pause", 0)
LoadFile(i) == Cmd("loadfile", "", i)

\* C1: play_station(i) with i < 0 or i >= the number of stations returns
\* False, attempts no connection and writes no command, spawns no player, and
\* leaves current_station and playing (and the handle and the volume) as
\* they were.
C1_InvalidStationRejected ==
    [][\A i \in StationInputs :
         (~ValidStation(i) /\ Ran("play_station") /\ last'.arg = i)
         => /\ last'.ret = "False"
            /\ last'.conns = 0
            /\ last'.sent = <<>>
            /\ last'.spawns = <<>>
            /\ UNCHANGED facade]_vars

\* An index past the end was rejected while a station was playing.
C1_Witness ==
    /\ last.op = "play_station"
    /\ last.arg = NumStations
    /\ last.ret = "False"
    /\ current_station # None
    /\ playing

\* C3, as claimed: after stop_mpv returns, on whichever path, the handle is
\* empty, current_station is None and playing is false.
C3_Original ==
    last.op = "stop_mpv"
    => mpv_process = 0 /\ current_station = None /\ ~playing

\* C3, amended: after stop_mpv returns the handle is empty; when a process was
\* tracked at the call (it exited within the wait, or was killed after the
\* timeout) current_station is None and playing is false; when none was
\* tracked, stop_mpv leaves current_station and playing as they were.
C3_StopPlayerClears ==
    [][Ran("stop_mpv")
       => /\ mpv_process' = 0
          /\ mpv_process # 0 => (current_station' = None /\ ~playing')
          /\ mpv_process = 0 => UNCHANGED <<current_station, playing>>]_vars

\* stop_mpv killed the tracked process after the timeout and cleared the session.
C3_Witness ==
    /\ last.op = "stop_mpv"
    /\ \E k \in DOMAIN last.sigs : last.sigs[k].sig = "kill"
    /\ mpv_process = 0
    /\ current_station = None
    /\ ~playing

\* C4, as claimed: a stop of the player that directly follows a stop of the
\* player attempts no connection, writes no command, signals no process and
\* reports success (the /api/shutdown_mpv response is a 200; controller.py's
\* /stop answers "success": true).
C4_Original ==
    (last.op \in {"stop_mpv", "ctl_stop"} /\ last.repeat)
    => /\ last.conns = 0
       /\ last.sent = <<>>
       /\ last.sigs = <<>>
       /\ IF last.op = "ctl_stop" THEN last.ret = "True" ELSE last.http = 200

\* C5: play_station(i), valid i, answered by the player, returns True and sets
\* current_station = i; the toggle_pause that follows, answered, writes one
\* cycle-pause, returns True and makes playing false; the toggle_pause after
\* that, answered, writes loadfile for station i (no cycle-pause), returns
\* True and makes playing true, current_station still i.
C5_PlayPauseReplay ==
    /\ (last.op = "play_station" /\ ValidStation(last.arg) /\ Reached(last))
       => /\ last.ret = "True"
          /\ current_station = Some(last.arg)
          /\ playing
          /\ last.run = [n |-> 1, idx |-> last.arg]
    /\ (last.run.n = 2 /\ Reached(last))
       => /\ last.ret = "True"
          /\ last.sent = <<CyclePause>>
          /\ ~playing
          /\ current_station = Some(last.run.idx)
    /\ (last.run.n = 3 /\ Reached(last))
       => /\ last.ret = "True"
          /\ last.sent = <<LoadFile(last.run.idx)>>
          /\ playing
          /\ current_station = Some(last.run.idx)

\* The second toggle_pause after play_station replayed the last station.
C5_Witness ==
    /\ last.op = "toggle_pause"
    /\ last.run = [n |-> 3, idx |-> NumStations - 1]
    /\ Reached(last)
    /\ playing
    /\ current_station = Some(NumStations - 1)

\* The status read went through MPVController.get_status (the socket file
\* was there when /api/status looked): it made its three send_command calls.
ThroughFacade(l) == l.op = "get_status" /\ Len(l.replies) = 3

\* C6, as claimed: a status read that directly follows play_station(i), valid
\* i, reports station_index = i.
C6_Original ==
    (last.op = "get_status" /\ last.after.idx # None)
    => last.status[1].station_index = last.after.idx

\* C6, amended: a status read that follows a play_station(i) that returned
\* True, with no other play_station and no stop_mpv call in between, reports
\* station_index = i when it goes through MPVController.get_status; with the
\* socket file absent /api/status reports station_index None. In parts: the
\* read directly after a successful play_station(i) reports i; any read
\* through get_status reports current_station; and current_station changes in
\* no step but a play_station, a toggle_pause re-issuing it, a stop_mpv or a
\* restart.
C6_StatusReportsStation ==
    /\ [](/\ (ThroughFacade(last) /\ last.after.ok)
             => last.status[1].station_index = last.after.idx
          /\ ThroughFacade(last)
             => last.status[1].station_index = current_station
          /\ (last.op = "get_status" /\ ~ThroughFacade(last))
             => last.status[1].station_index = None
          /\ (last.op = "play_station" /\ last.ret = "True")
             => current_station = Some(last.arg))
    /\ [][current_station' # current_station
          => last'.op \in {"play_station", "toggle_pause", "stop_mpv", "restart_mpv"}]_vars

\* A status read through get_status right after a successful play_station of
\* the last station reported that station, the player paused.
C6_Witness ==
    /\ ThroughFacade(last)
    /\ last.after = [idx |-> Some(NumStations - 1), ok |-> TRUE]
    /\ last.status[1].station_index = Some(NumStations - 1)
    /\ ~playing

\* C8: toggle_pause called with playing false and current_station None
\* returns False, attempts no connection, writes no command, spawns no
\* player and leaves the facade as it was.
C8_ToggleWithoutStation ==
    [][(Ran("toggle_pause") /\ ~playing /\ current_station = None)
       => /\ last'.ret = "False"
          /\ last'.conns = 0
          /\ last'.sent = <<>>
          /\ last'.spawns = <<>>
          /\ UNCHANGED facade]_vars

\* toggle_pause failed with no station known and no player tracked.
C8_Witness ==
    /\ last.op = "toggle_pause"
    /\ last.ret = "False"
    /\ last.replies = <<>>
    /\ current_station = None
    /\ ~playing
    /\ mpv_process = 0
    /\ phase = "serving"

\* C9, as claimed: play_station(i), valid i, returns True and records the
\* station exactly when its loadfile got a successful reply; when the call
\* came back with nothing or with a reply that reports an error it returns False.
C9_Original ==
    (last.op = "play_station" /\ ValidStation(last.arg))
    => /\ last.ret = "True"
          <=> (last.replies # <<>> /\ last.replies[Len(last.replies)] = "ok")
       /\ last.ret = "True" => (current_station = Some(last.arg) /\ playing)

\* C10: toggle_pause called with playing true makes one send_command call,
\* for cycle-pause and nothing else; playing is negated, and True returned,
\* exactly when the call came back with a reply; when it did not, False is
\* returned and playing is as it was; current_station, the handle and the
\* volume are as they were either way.
C10_TogglePlaying ==
    [][(Ran("toggle_pause") /\ playing)
       => /\ Len(last'.replies) = 1
          /\ last'.conns <= 1
          /\ last'.sent \in {<<>>, <<CyclePause>>}
          /\ last'.spawns = <<>>
          /\ (last'.replies[1] # "none") <=> (playing' = ~playing)
          /\ (last'.replies[1] # "none") <=> (last'.ret = "True")
          /\ (last'.replies[1] = "none") => (last'.ret = "False" /\ UNCHANGED playing)
          /\ UNCHANGED <<current_station, mpv_process, volume>>]_vars

\* A toggle_pause of a playing facade wrote one cycle-pause, was answered and
\* left the facade paused.
C10_Witness ==
    /\ last.op = "toggle_pause"
    /\ last.sent = <<CyclePause>>
    /\ last.replies = <<"ok">>
    /\ last.ret = "True"
    /\ ~playing


\* C2, as claimed: set_volume(v) with v outside 0..100 reports failure,
\* attempts no connection and writes no command, in internet_radio_player.py
\* (set_volume returns False) and in audio_book_player.py (the body's status
\* is not "success").
C2_Original ==
    (last.op \in {"set_volume", "book_set_volume"}
     /\ (last.arg < VolumeMin \/ last.arg > VolumeMax))
    => /\ last.ret \notin {"True", "success"}
       /\ last.conns = 0
       /\ last.sent = <<>>

\* The PlaybackState C7 names: every field at its documented default
\* (the volume at 0), updated.
DocumentedDefaults ==
    [filename |-> "Unknown", duration |-> 0, position |-> 0, paused |-> FALSE,
     speed |-> SpeedDefault, chapter |-> 0, chapter_count |-> 0, volume |-> 0,
     last_updated |-> 1]

\* The update ran with the channel unavailable: every fetch tried to connect
\* and none could write its command.
Unavailable(l) ==
    l.op \in {"book_tick", "book_get_state"} /\ l.conns > 0 /\ l.sent = <<>>

\* C7, as claimed: an update with the channel unavailable completes and
\* leaves title "Unknown", every numeric field 0 (the volume too), paused
\* false and speed 1.0.
C7_Original ==
    Unavailable(last)
    => /\ last.ret = "None"
       /\ playback_state = DocumentedDefaults

\* C7, amended: an update with the channel unavailable completes and leaves
\* title "Unknown", duration, position, chapter and chapter count 0, paused
\* false, speed 1.0 and volume 100; /api/state returns that state.
C7_RefreshDefaults ==
    Unavailable(last)
    => /\ last.ret = "None"
       /\ last.conns = 9
       /\ playback_state = [DocumentedDefaults EXCEPT !.volume = BookVolumeDefault]
       /\ last.op = "book_get_state" => last.status = Some(playback_state)

\* /api/state was answered with the defaults, the player gone.
C7_Witness ==
    /\ last.op = "book_get_state"
    /\ Unavailable(last)
    /\ ~book_up
    /\ last.status[1].volume = BookVolumeDefault
    /\ last.status[1].filename = "Unknown"


\* C11: stop() changes neither current_station nor the tracked process handle
\* (nor the cached volume); it makes one send_command call, with the stop
\* command; when that call returns a reply it sets playing false and returns
\* True; when the call returns None it returns False and leaves playing as it
\* was.
C11_StopKeepsStation ==
    [][Ran("stop")
       => /\ UNCHANGED <<current_station, mpv_process, volume>>
          /\ Len(last'.replies) = 1
          /\ last'.sent \in {<<>>, <<Cmd("stop", "", 0)>>}
          /\ last'.spawns = <<>> /\ last'.sigs = <<>>
          /\ Reached(last') => (last'.ret = "True" /\ ~playing')
          /\ ~Reached(last') => (last'.ret = "False" /\ UNCHANGED playing)]_vars

\* stop() succeeded while a station was playing on a tracked player: the
\* station and the handle are still there, playing is false.
C11_Witness ==
    /\ last.op = "stop" /\ last.ret = "True"
    /\ current_station = Some(0)
    /\ mpv_process # 0
    /\ ~playing

\* C12: set_volume(v) with 0 <= v <= 100 makes one send_command call, writing
\* nothing but set_property volume v; when the call returns a reply the cached
\* volume is v and the result True; when it returns None the cached volume is
\* what it was and the result False. Nothing else of the facade changes.
C12_SetVolumeCaches ==
    [][(Ran("set_volume") /\ last'.arg >= VolumeMin /\ last'.arg <= VolumeMax)
       => /\ Len(last'.replies) = 1
          /\ last'.sent \in {<<>>, <<Cmd("set_property", "volume", last'.arg)>>}
          /\ Reached(last') => (last'.ret = "True" /\ volume' = last'.arg
                                /\ last'.sent # <<>>)
          /\ ~Reached(last') => (last'.ret = "False" /\ UNCHANGED volume)
          /\ UNCHANGED <<mpv_process, current_station, playing>>]_vars

\* set_volume(100) succeeded from another cached volume, and a later
\* set_volume(0) failed, leaving 100.
C12_Witness ==
    /\ last.op = "set_volume" /\ last.arg = VolumeMin /\ last.ret = "False"
    /\ last.conns = 1
    /\ volume = VolumeMax

\* C16: in get_status, a reply without "data" (and no reply at all) yields no
\* value: the title is "Unknown", the cached volume and playing are not
\* touched by that reply and are reported as they were, current_station and
\* the handle are untouched, and the status dict is returned.
C16_NoDataNoUpdate ==
    [][(Ran("get_status") /\ ThroughFacade(last'))
       => /\ last'.ret = "dict"
          /\ last'.status # None
          /\ last'.replies[1] # "ok" => last'.status[1].media_title = Some("Unknown")
          /\ last'.replies[2] # "ok"
             => (UNCHANGED volume /\ last'.status[1].volume = volume)
          /\ last'.replies[3] # "ok"
             => (UNCHANGED playing /\ last'.status[1].playing = playing)
          /\ UNCHANGED <<current_station, mpv_process>>]_vars

\* get_status got three replies without "data" while a station was playing
\* at a volume set by the caller, and reported just that.
C16_Witness ==
    /\ last.op = "get_status"
    /\ last.replies = <<"error", "error", "error">>
    /\ last.status[1].media_title = Some("Unknown")
    /\ last.status[1].playing /\ playing
    /\ last.status[1].volume = VolumeMax /\ volume = VolumeMax

\* C19, as claimed: after restart_mpv returns success a process is tracked,
\* current_station is None and playing is false; it returns failure exactly
\* when the spawn failed, and then no process is tracked.
C19_Original ==
    last.op = "restart_mpv"
    => /\ last.ret = "True"
          => (mpv_process # 0 /\ current_station = None /\ ~playing)
       /\ last.ret # "True"
          => (last.ret = "False" /\ last.spawns = <<>> /\ mpv_process = 0)
       /\ last.ret = "True" <=> last.spawns # <<>>

\* C19, amended: restart_mpv stops, then starts. It returns True exactly when
\* the spawn succeeded, and then the one process it spawned is tracked and
\* alive; otherwise it returns False and no process is tracked. If a process
\* was tracked when it was called, that process was sent terminate,
\* current_station is None and playing is false afterwards; if none was
\* tracked, no signal is sent and current_station and playing keep their
\* values.
C19_RestartStopsThenStarts ==
    [][Ran("restart_mpv")
       => /\ last'.ret \in {"True", "False"}
          /\ last'.ret = "True"
             => /\ mpv_process' # 0
                /\ mpv_process' \in alive'
                /\ last'.spawns = <<mpv_process'>>
          /\ last'.ret = "False"
             => (mpv_process' = 0 /\ last'.spawns = <<>>)
          /\ mpv_process # 0
             => /\ current_station' = None /\ ~playing'
                /\ last'.sigs # <<>>
                /\ last'.sigs[1] = [sig |-> "terminate", pid |-> mpv_process]
          /\ mpv_process = 0
             => (UNCHANGED <<current_station, playing>> /\ last'.sigs = <<>>)
          /\ UNCHANGED volume
          /\ last'.sent = <<>>]_vars

\* A restart of a tracked, running player succeeded: the old one was sent
\* terminate, a new one is tracked, and the station is forgotten.
C19_Witness ==
    /\ last.op = "restart_mpv" /\ last.ret = "True"
    /\ last.sigs # <<>>
    /\ last.spawns = <<mpv_process>>
    /\ mpv_process \in alive
    /\ current_station = None /\ ~playing


\* The handle is one of a process that runs: poll() is None.
TrackedAlive == mpv_process # 0 /\ mpv_process \in alive

\* C17: start_mpv() called while the tracked process is alive spawns nothing,
\* signals nothing, leaves the socket file and its owner, the processes and
\* the facade's fields as they were, and returns None (already running), not
\* False (the spawn failed) and not True.
C17_StartWhileRunning ==
    [][(Ran("start_mpv") /\ TrackedAlive)
       => /\ last'.ret = "None"
          /\ last'.spawns = <<>> /\ last'.sigs = <<>>
          /\ last'.conns = 0 /\ last'.sent = <<>>
          /\ UNCHANGED <<mpv_process, current_station, playing, volume,
                         alive, sockFile, sockOwner>>]_vars

\* start_mpv answered "already running" while the tracked player was alive
\* and served its socket file.
C17_Witness ==
    /\ last.op = "start_mpv" /\ last.ret = "None"
    /\ phase = "serving"
    /\ mpv_process # 0 /\ mpv_process \in alive
    /\ sockFile /\ sockOwner = mpv_process

\* C18: when Popen raises, start_mpv() returns False and the handle is what
\* it was (no process becomes tracked); a play_station(i), valid i, whose
\* start_mpv met that failure returns False, attempts no connection, writes
\* no command and leaves current_station and playing as they were. The spawn
\* failed: start_mpv went past its "already running" test and created no
\* process.
C18_SpawnFailure ==
    /\ [][(Ran("start_mpv") /\ ~TrackedAlive /\ last'.spawns = <<>>)
          => /\ last'.ret = "False"
             /\ UNCHANGED <<mpv_process, current_station, playing, volume, alive>>]_vars
    /\ [][(Ran("play_station") /\ ValidStation(last'.arg)
           /\ ~sockFile /\ ~TrackedAlive /\ last'.spawns = <<>>)
          => /\ last'.ret = "False"
             /\ last'.conns = 0 /\ last'.sent = <<>>
             /\ UNCHANGED <<mpv_process, current_station, playing, volume, alive>>]_vars

\* play_station failed on a spawn failure while a station was remembered and
\* the handle was that of a process that had exited.
C18_Witness ==
    /\ last.op = "play_station" /\ last.ret = "False"
    /\ ValidStation(last.arg)
    /\ last.spawns = <<>> /\ last.replies = <<>>
    /\ mpv_process # 0 /\ mpv_process \notin alive
    /\ current_station # None /\ current_station # Some(last.arg)


\* The operations that change what the player does.
Mutating ==
    {"play_station", "toggle_pause", "stop", "set_volume",
     "book_toggle_pause", "book_stop", "book_seek", "book_set_volume"}

\* The handler's channel calls failed because the player was unreachable:
\* it looked for the socket file or tried to connect, and wrote nothing.
PlayerUnreachable(l) ==
    l.sent = <<>> /\ (l.conns > 0 \/ l.replies # <<>>)

\* C13, as claimed: a mutating operation whose channel call failed because
\* the player was unreachable reports a failure: failure flag, and a status
\* code that is not 2xx.
C13_Original ==
    (last.op \in Mutating /\ PlayerUnreachable(last))
    => /\ last.ret = "False"
       /\ (last.http < 200 \/ last.http > 299)

\* The cached playback values, the time of the update aside.
Cached(ps) == [ps EXCEPT !.last_updated = 0]

\* C14, as claimed: a refresh during which the channel failed leaves the
\* stored state as it was: current_station, playing, the cached volume and
\* the cached playback values.
C14_Original ==
    [][(last' # last
        /\ last'.op \in {"get_status", "book_tick", "book_get_state"}
        /\ PlayerUnreachable(last'))
       => /\ UNCHANGED <<current_station, playing, volume>>
          /\ Cached(playback_state') = Cached(playback_state)]_vars

\* C15, as claimed: no handler of a route is left by an exception; each
\* answers with a JSON body.
C15_Original ==
    last.http # 0 => last.ret # "raise"

\* The send_command calls a handler makes: one for a command, and for an
\* update of the playback state one per property, the filename's fetch being
\* made only when the title's gave nothing.
Sends(l) ==
    IF l.op \in {"book_tick", "book_get_state"} THEN {8, 9}
    ELSE IF l.op \in {"book_toggle_pause", "book_stop", "book_set_volume"} THEN {1}
    ELSE IF l.op = "book_seek" THEN {0, 1}
    ELSE 0 .. Len(l.replies)

\* C20, as claimed: each send_command call makes one connection attempt,
\* writes at most one command on it, and has closed the connection when it
\* returns, whatever happened.
C20_Original ==
    /\ last.conns \in Sends(last)
    /\ Len(last.sent) <= last.conns
    /\ last.open = 0


\* C27: in get_status, when the reply to get_property pause carries a "data"
\* value p, playing is (not p) when get_status returns, whatever it was, and
\* the status dict says so; when that reply carries none (or there is no
\* reply), playing is what it was.
C27_StatusReconcilesPlaying ==
    [][(Ran("get_status") /\ ThroughFacade(last'))
       => /\ last'.replies[3] = "ok" <=> last'.paused # None
          /\ last'.paused # None
             => /\ playing' = ~last'.paused[1]
                /\ last'.status[1].playing = ~last'.paused[1]
          /\ last'.paused = None => UNCHANGED playing]_vars

\* get_status read pause = false from the player while no station was
\* remembered, and playing is true.
C27_Witness ==
    /\ last.op = "get_status"
    /\ last.paused = Some(FALSE)
    /\ playing
    /\ current_station = None

\* C29: current_station is None or an index of RADIO_STATIONS, in every
\* reachable state, and the status dict of a status read names that station.
C29_StationInRange ==
    /\ current_station # None => ValidStation(current_station[1])
    /\ (last.op = "get_status" /\ last.status[1].station_index # None)
       => /\ ValidStation(last.status[1].station_index[1])
          /\ last.status[1].station_name
               = Some(StationName(last.status[1].station_index[1]))

\* A status read reported the last station of the list, by its name.
C29_Witness ==
    /\ last.op = "get_status"
    /\ current_station = Some(NumStations - 1)
    /\ last.status[1].station_index = Some(NumStations - 1)
    /\ last.status[1].station_name = Some("Sonic Universe")


\* C23, as claimed: stop_mpv with a tracked process first writes a quit
\* command to the player's socket.
C23_Original ==
    [][(Ran("stop_mpv") /\ mpv_process # 0)
       => /\ last'.sent # <<>>
          /\ last'.sent[1].name = "quit"]_vars

\* C23: stop_mpv with a tracked process p writes nothing to the player's
\* socket; it first signals terminate to p, then waits, and signals kill to
\* p only after terminate and only when p had not exited by the end of the
\* wait; it signals nothing else.
C23_TerminateThenKill ==
    [][(Ran("stop_mpv") /\ mpv_process # 0)
       => LET p == mpv_process
              g == last'.sigs
          IN  /\ last'.conns = 0 /\ last'.sent = <<>>
              /\ Len(g) \in {1, 2}
              /\ g[1] = [sig |-> "terminate", pid |-> p]
              /\ Len(g) = 2
                 => /\ g[2] = [sig |-> "kill", pid |-> p]
                    /\ p \in alive /\ p \in alive'
              /\ (p \in alive /\ p \notin alive') => Len(g) = 1]_vars

\* stop_mpv signalled terminate, the wait ran out on the live process, and
\* kill followed.
C23_Witness ==
    /\ last.op = "stop_mpv"
    /\ Len(last.sigs) = 2
    /\ last.sigs[1].sig = "terminate" /\ last.sigs[2].sig = "kill"
    /\ last.sigs[1].pid = last.sigs[2].pid
    /\ last.sigs[2].pid \in alive

\* C24, as claimed: when stop_mpv returns, the process that was tracked when
\* it was called has exited.
C24_Original ==
    [][(Ran("stop_mpv") /\ mpv_process # 0) => mpv_process \notin alive']_vars

\* C25, as claimed: play_station(i), valid i, called while the tracked
\* process is alive and the socket file is absent, goes on to call
\* send_command for the load.
C25_Original ==
    [][(Ran("play_station") /\ ValidStation(last'.arg)
          /\ ~sockFile /\ TrackedAlive)
       => last'.replies # <<>>]_vars

\* C26, as claimed: GET /api/state leaves playback_state as it was.
C26_Original ==
    [][Ran("book_get_state") => UNCHANGED playback_state]_vars

\* C28, as claimed: every live process controller.py spawned is the one its
\* handle names.
C28_Original ==
    alive \subseteq {ctl_process}


\* C22, as claimed: once the server has ended, no player process it started
\* is still tracked and running.
C22_Original ==
    phase = "exited" => ~(ctl_process # 0 /\ ctl_process \in alive)


\* C21, as claimed: every send_command call of the refresh loop eventually
\* returns, so the loop goes on to its next call.
C21_Original ==
    \A k \in RefreshCalls : (updater_pc = k) ~> (updater_pc # k)

=============================================================================
